---- MODULE Spec2Model ----
(***************************************************************************)
(* Model of the statistical test engine of src/src/utils_stats.py.         *)
(*                                                                         *)
(* The caller owns a dataset df and calls the module's functions on it;    *)
(* every call is one action, and what it returned (or that it raised) is   *)
(* kept in result, its arguments and local variables in call.              *)
(*                                                                         *)
(* A dataset is a bag of rows (a function from row to number of copies):   *)
(* none of the modelled functions depends on the order of the rows.        *)
(*                                                                         *)
(* Floating point values are modelled as exact reals of the form           *)
(* a + s*sqrt(b), with a, b rational, s in {-1, 0, 1}, or NaN; rounding    *)
(* error of the floating point arithmetic is not modelled.                 *)
(***************************************************************************)
EXTENDS Integers, Sequences, FiniteSets, TLC

(***************************************************************************)
(* Bounds of the model.                                                    *)
(***************************************************************************)
\* Largest number of rows of an enumerated small dataset.
MaxRows == 3
\* Largest number of rows of an enumerated small grouped dataset.
MaxGroupedRows == 4
\* Largest total of calculate_proportion_ci that is enumerated.
MaxTotal == 6
\* Largest number of rows of an enumerated dataset of bookings.
MaxBookings == 2
\* Largest number of rows of a dataset on which every operation is called.
MaxEngineRows == 1

\* The most rows a dataset of stays has.
MaxStays == 2
\* The most rows a dataset of raw bookings has.
MaxRawBookings == 1

(***************************************************************************)
(* Rationals: <<n, d>> with d > 0, in lowest terms.                        *)
(***************************************************************************)
RECURSIVE GCD(_, _)
GCD(m, n) == IF n = 0 THEN m ELSE GCD(n, m % n)

IAbs(i) == IF i < 0 THEN -i ELSE i

ISign(i) == IF i < 0 THEN -1 ELSE IF i = 0 THEN 0 ELSE 1

IMin(i, j) == IF i <= j THEN i ELSE j

Q(n, d) ==
    LET g == GCD(IAbs(n), IAbs(d))
    IN  IF d < 0 THEN <<-(n \div g), -(d \div g)>> ELSE <<n \div g, d \div g>>

QInt(i) == <<i, 1>>

QAdd(x, y) ==
    LET g == GCD(x[2], y[2])
        l == (x[2] \div g) * y[2]
    IN  Q(x[1] * (l \div x[2]) + y[1] * (l \div y[2]), l)

QNeg(x) == <<-x[1], x[2]>>

QSub(x, y) == QAdd(x, QNeg(y))

QMul(x, y) ==
    LET g1 == GCD(IAbs(x[1]), y[2])
        g2 == GCD(IAbs(y[1]), x[2])
    IN  Q((x[1] \div g1) * (y[1] \div g2), (x[2] \div g2) * (y[2] \div g1))

\* y # 0
QDiv(x, y) == QMul(x, Q(y[2], y[1]))

QLt(x, y) ==
    LET g == GCD(x[2], y[2])
    IN  x[1] * (y[2] \div g) < y[1] * (x[2] \div g)

QLe(x, y) == ~QLt(y, x)

QSq(x) == QMul(x, x)

QZero == QInt(0)

QOne == QInt(1)

(***************************************************************************)
(* Floats: NaN, or the real a + s*sqrt(b).                                 *)
(***************************************************************************)
NaN == [nan |-> TRUE, a |-> QZero, s |-> 0, b |-> QZero]

Num(q) == [nan |-> FALSE, a |-> q, s |-> 0, b |-> QZero]

\* a + s*sqrt(b), normalised: a vanishing root has s = 0 and b = 0; a root
\* of a rational square is folded into a only for b = 1.
Surd(a, s, b) ==
    IF s = 0 \/ b = QZero THEN Num(a)
    ELSE IF b = QOne THEN Num(QAdd(a, QInt(s)))
    ELSE [nan |-> FALSE, a |-> a, s |-> s, b |-> b]

IsNaN(x) == x.nan

IsRational(x) == ~x.nan /\ x.s = 0

\* x < q, x > q for a float x and a rational q; like Python's, every
\* comparison with NaN is false.
FLt(x, q) ==
    /\ ~x.nan
    /\ LET c == QSub(q, x.a)
       IN  CASE x.s = 0  -> QLt(QZero, c)
             [] x.s = 1  -> QLt(QZero, c) /\ QLt(x.b, QSq(c))
             [] x.s = -1 -> QLt(QZero, c) \/ c = QZero \/ QLt(QSq(c), x.b)

FGt(x, q) ==
    /\ ~x.nan
    /\ LET c == QSub(x.a, q)
       IN  CASE x.s = 0  -> QLt(QZero, c)
             [] x.s = 1  -> QLt(QZero, c) \/ c = QZero \/ QLt(QSq(c), x.b)
             [] x.s = -1 -> QLt(QZero, c) /\ QLt(x.b, QSq(c))

FEq(x, q) == ~x.nan /\ ~FLt(x, q) /\ ~FGt(x, q)

FLe(x, q) == FLt(x, q) \/ FEq(x, q)

FGe(x, q) == FGt(x, q) \/ FEq(x, q)

\* np.sqrt of a float that holds a rational: NaN for NaN and for a
\* negative number.
FSqrt(x) ==
    IF x.nan \/ QLt(x.a, QZero) THEN NaN ELSE Surd(QZero, 1, x.a)

\* x**2 of a float that is a rational or a pure root.
FSq(x) ==
    IF x.nan THEN NaN
    ELSE CASE x.s = 0      -> Num(QSq(x.a))
           [] x.a = QZero  -> Num(x.b)

\* x + y, x - y of floats of which at most one holds a root.
FAdd(x, y) ==
    IF x.nan \/ y.nan THEN NaN
    ELSE CASE y.s = 0 -> Surd(QAdd(x.a, y.a), x.s, x.b)
           [] x.s = 0 -> Surd(QAdd(x.a, y.a), y.s, y.b)

FNeg(x) == IF x.nan THEN NaN ELSE [x EXCEPT !.a = QNeg(x.a), !.s = -x.s]

FSub(x, y) == FAdd(x, FNeg(y))

\* x * y of a rational float x and a float y that is a rational or a pure root.
FMul(x, y) ==
    IF x.nan \/ y.nan THEN NaN
    ELSE CASE x.s = 0 /\ y.s = 0 -> Num(QMul(x.a, y.a))
           [] x.s = 0 /\ y.a = QZero ->
                Surd(QZero, ISign(x.a[1]) * y.s, QMul(QSq(x.a), y.b))

\* x / y of a rational float x and a non-zero float y that is a rational or
\* a pure root.
FDiv(x, y) ==
    IF x.nan \/ y.nan THEN NaN
    ELSE CASE x.s = 0 /\ y.s = 0 -> Num(QDiv(x.a, y.a))
           [] x.s = 0 /\ y.a = QZero ->
                Surd(QZero, ISign(x.a[1]) * y.s, QDiv(QSq(x.a), y.b))

\* abs() of a float that is a rational or a pure root.
FAbs(x) ==
    IF x.nan THEN NaN
    ELSE CASE x.s = 0      -> Num(<<IAbs(x.a[1]), x.a[2]>>)
           [] x.a = QZero  -> Surd(QZero, 1, x.b)

\* Python's truth value of a number: false only for zero (NaN is true).
Truthy(x) == x.nan \/ ~FEq(x, QZero)

(***************************************************************************)
(* Sums over finite sets.                                                  *)
(***************************************************************************)
RECURSIVE SumOver(_, _)
SumOver(f, S) ==
    IF S = {} THEN 0
    ELSE LET e == CHOOSE e \in S : TRUE IN f[e] + SumOver(f, S \ {e})

RECURSIVE QSumOver(_, _)
QSumOver(f, S) ==
    IF S = {} THEN QZero
    ELSE LET e == CHOOSE e \in S : TRUE IN QAdd(f[e], QSumOver(f, S \ {e}))

Range(s) == {s[i] : i \in DOMAIN s}

(***************************************************************************)
(* Datasets.  A dataset has typed columns and a bag of rows.  A missing    *)
(* categorical cell is NA; a numeric cell is <<v>>, or <<>> when missing.  *)
(***************************************************************************)
NA == "<NA>"

NullNum == <<>>

\* The bag of the rows of a sequence of rows.
SeqToBag(s) ==
    [r \in Range(s) |-> Cardinality({i \in DOMAIN s : s[i] = r})]

\* The bags of at most n rows taken from R.
RECURSIVE SeqsUpTo(_, _)
SeqsUpTo(R, n) ==
    IF n = 0 THEN {<<>>}
    ELSE LET prev == SeqsUpTo(R, n - 1)
         IN  prev \cup {Append(s, r) : s \in {t \in prev : Len(t) = n - 1}, r \in R}

BagsUpTo(R, n) == {SeqToBag(s) : s \in SeqsUpTo(R, n)}

\* len(df)
NRows(rows) == SumOver(rows, DOMAIN rows)

\* The columns of a dataset that hold categories.
CategoricalColumns(d) == {c \in DOMAIN d.dtypes : d.dtypes[c] = "category"}

\* The categorical datasets: two categorical columns, var1 and var2.
Var1Values == {"A", "B", "C"}

Var2Values == {"X", "Y"}

CategoricalRows ==
    [var1 : Var1Values \cup {NA}, var2 : Var2Values \cup {NA}]

\* The dataset of 100 rows whose table of var1 by var2 is
\* [[40, 10], [10, 40]].
ScenarioBag ==
    ([var1 |-> "A", var2 |-> "X"] :> 40) @@ ([var1 |-> "A", var2 |-> "Y"] :> 10)
    @@ ([var1 |-> "B", var2 |-> "X"] :> 10) @@ ([var1 |-> "B", var2 |-> "Y"] :> 40)

CategoricalDatasets ==
    {[dtypes |-> [var1 |-> "category", var2 |-> "category"], rows |-> b] :
        b \in BagsUpTo(CategoricalRows, MaxRows) \cup {ScenarioBag}}

\* The columns of a dataset that hold numbers.
NumericColumns(d) == {c \in DOMAIN d.dtypes : d.dtypes[c] = "float"}

\* The grouped datasets: a categorical column group_var and a numeric column
\* numeric_var.
GroupLabels == {"a", "b"}

NumericValues == {0, 1}

GroupedRows ==
    [group_var : GroupLabels \cup {NA},
     numeric_var : {<<v>> : v \in NumericValues} \cup {NullNum}]

GroupedRow(g, v) == [group_var |-> g, numeric_var |-> <<v>>]

\* Below this sample size perform_t_test tests a group for normality.
ShapiroMaxN == 5000

\* Datasets whose groups are around ShapiroMaxN rows long, every row of a
\* group holding the same number.
LargeBags ==
    {(GroupedRow("a", 1) :> ShapiroMaxN) @@ (GroupedRow("b", 0) :> ShapiroMaxN),
     (GroupedRow("a", 1) :> ShapiroMaxN - 1) @@ (GroupedRow("b", 0) :> ShapiroMaxN - 1),
     (GroupedRow("a", 0) :> ShapiroMaxN - 1) @@ (GroupedRow("b", 0) :> ShapiroMaxN),
     (GroupedRow("a", 0) :> ShapiroMaxN) @@ (GroupedRow("b", 0) :> ShapiroMaxN - 1)}

\* The bag of a group's rows holding the numbers of a sequence.
GroupBag(g, values) == SeqToBag([i \in DOMAIN values |-> GroupedRow(g, values[i])])

\* Datasets of two groups whose Cohen's d (-0.2, 0.5, -0.8) or eta-squared
\* (0.01, 0.06, 0.14) is a threshold of the effect size labels.
BoundaryBags ==
    {GroupBag("a", <<0, 3>>) @@ GroupBag("b", <<0, 4>>),
     GroupBag("a", <<0, 4>>) @@ GroupBag("b", <<1, 1>>),
     GroupBag("a", <<0, 4>>) @@ GroupBag("b", <<1, 3, 4, 6, 6>>),
     GroupBag("a", <<0, 4>>) @@ GroupBag("b", <<0, 0, 5, 5>>),
     GroupBag("a", <<0, 0, 3>>) @@ GroupBag("b", <<0, 0, 2, 3, 4>>),
     GroupBag("a", <<0, 0>>) @@ GroupBag("b", <<0, 0, 1, 1, 5>>)}

GroupedDataset(b) ==
    [dtypes |-> [group_var |-> "category", numeric_var |-> "float"], rows |-> b]

SmallGroupedDatasets ==
    {GroupedDataset(b) : b \in BagsUpTo(GroupedRows, MaxGroupedRows) \cup BoundaryBags}

LargeGroupedDatasets == {GroupedDataset(b) : b \in LargeBags}

\* The dataset of the two groups [10, 12, 11, 13, 12] and
\* [20, 22, 21, 23, 22].
ScenarioGroups ==
    GroupBag("a", <<10, 12, 11, 13, 12>>) @@ GroupBag("b", <<20, 22, 21, 23, 22>>)

VARIABLES df, call, result

vars == <<df, call, result>>

NoCall == [op |-> "none"]

NoResult == [kind |-> "none"]

\* The call ended with an exception instead of a return value.
Raised(error) == [kind |-> "raise", error |-> error]

\* The engine is single-threaded and synchronous: the caller makes one call
\* at a time, and makes the next when it is done with what the last returned.
Idle == call = NoCall

\* The caller is done with the last call's result.
Discard ==
    /\ ~Idle
    /\ call' = NoCall
    /\ result' = NoResult
    /\ UNCHANGED df

(***************************************************************************)
(* perform_chi_square_test                                                 *)
(***************************************************************************)
\* pd.crosstab(df[var1], df[var2]): the counts of the rows in which both
\* cells are present, indexed by the values observed in them.
Crosstab(d, var1, var2) ==
    LET present == {r \in DOMAIN d.rows : r[var1] # NA /\ r[var2] # NA}
        index   == {r[var1] : r \in present}
        columns == {r[var2] : r \in present}
    IN  [index   |-> index,
         columns |-> columns,
         count   |-> [k \in index \X columns |->
                        SumOver(d.rows,
                                {r \in present : r[var1] = k[1] /\ r[var2] = k[2]})]]

\* contingency_table.sum().sum()
TableTotal(t) == SumOver(t.count, t.index \X t.columns)

RowTotal(t, i) == SumOver([j \in t.columns |-> t.count[<<i, j>>]], t.columns)

ColTotal(t, j) == SumOver([i \in t.index |-> t.count[<<i, j>>]], t.index)

\* scipy.stats.chi2_contingency's degrees of freedom of a non-empty table.
ChiDof(t) == (Cardinality(t.index) - 1) * (Cardinality(t.columns) - 1)

\* scipy.stats.chi2_contingency's statistic: 0.0 when there is no degree of
\* freedom, else Pearson's chi-squared, the sum over the cells of
\* (observed - expected)^2 / expected, with Yates' continuity correction
\* (min(0.5, |diff|) towards expected) when there is one degree of freedom.
Chi2Statistic(t) ==
    LET cells == t.index \X t.columns
        n     == TableTotal(t)
        rt    == [i \in t.index |-> RowTotal(t, i)]
        ct    == [j \in t.columns |-> ColTotal(t, j)]
        yates == ChiDof(t) = 1
        half  == Q(1, 2)
        term(k) ==
            LET expected == Q(rt[k[1]] * ct[k[2]], n)
                diff     == QSub(expected, QInt(t.count[k]))
                adiff    == <<IAbs(diff[1]), diff[2]>>
                adjusted == IF yates
                            THEN (IF QLt(adiff, half) THEN QZero
                                  ELSE QSub(adiff, half))
                            ELSE adiff
            IN  QDiv(QSq(adjusted), expected)
    IN  IF ChiDof(t) = 0 THEN QZero
        ELSE QSumOver([k \in cells |-> term(k)], cells)

\* The 0.95 quantile of the chi-squared distribution, to three decimals:
\* the survival function of a statistic is below 0.05 exactly when the
\* statistic is above it.
ChiCriticalValue(dof) ==
    CASE dof = 1 -> Q(3841, 1000)
      [] dof = 2 -> Q(5991, 1000)
      [] dof = 3 -> Q(7815, 1000)
      [] dof = 4 -> Q(9488, 1000)

\* The p-values the library may return for a table: 1.0 when there is no
\* degree of freedom, else the survival function of the statistic, of which
\* the model keeps a value on each side of alpha and alpha itself.
ChiPValues(t) ==
    IF ChiDof(t) = 0 THEN {Num(QOne)}
    ELSE IF QLt(ChiCriticalValue(ChiDof(t)), Chi2Statistic(t))
    THEN {Num(Q(1, 25))}
    ELSE {Num(Q(1, 20)), Num(QOne)}

Alpha == Q(1, 20)

\* IsSignificant with <= for <.
IsSignificantAtMost(p_value) == FLe(p_value, Alpha)

\* alpha = 0.05; is_significant = p_value < alpha
IsSignificant(p_value) == FLt(p_value, Alpha)

\* The labels are the source's, written without the tilde of "pequeno".
\* InterpretCramersV with the large effect from 0.6.
InterpretCramersVFromSixTenths(v) ==
    IF FLt(v, Q(1, 10)) THEN "Efecto despreciable"
    ELSE IF FLt(v, Q(3, 10)) THEN "Efecto pequeno"
    ELSE IF FLt(v, Q(3, 5)) THEN "Efecto mediano"
    ELSE "Efecto grande"

InterpretCramersV(v) ==
    IF FLt(v, Q(1, 10)) THEN "Efecto despreciable"
    ELSE IF FLt(v, Q(3, 10)) THEN "Efecto pequeno"
    ELSE IF FLt(v, Q(1, 2)) THEN "Efecto mediano"
    ELSE "Efecto grande"

\* The f-string of the interpretation, as its pieces.
Interpretation(is_significant, what, subject, p_value) ==
    <<IF is_significant THEN "Existe" ELSE "No existe", what, subject, p_value>>

\* The value perform_chi_square_test returns for the contingency table of its
\* two columns and the p-value the library gave for it.
ChiSquareResult(contingency_table, var1, var2, p_value) ==
    LET chi2      == Chi2Statistic(contingency_table)
        n         == TableTotal(contingency_table)
        min_dim   == IMin(Cardinality(contingency_table.index),
                          Cardinality(contingency_table.columns)) - 1
        cramers_v == IF min_dim > 0
                     THEN FSqrt(Num(QDiv(chi2, QInt(n * min_dim))))
                     ELSE Num(QZero)
        is_significant == IsSignificant(p_value)
    IN  [kind               |-> "chi_square",
         chi2_statistic     |-> Num(chi2),
         p_value            |-> p_value,
         degrees_of_freedom |-> ChiDof(contingency_table),
         cramers_v          |-> cramers_v,
         is_significant     |-> is_significant,
         interpretation     |->
             Interpretation(is_significant, "asociacion significativa entre",
                            <<var1, var2>>, p_value),
         effect_size        |-> InterpretCramersV(cramers_v),
         contingency_table  |-> contingency_table]

PerformChiSquareTest ==
    \E var1 \in CategoricalColumns(df), var2 \in CategoricalColumns(df) :
        /\ Idle
        /\ call' = [op |-> "perform_chi_square_test", var1 |-> var1, var2 |-> var2]
        /\ LET t == Crosstab(df, var1, var2)
           IN  IF t.index = {}
               THEN \* chi2_contingency: "No data; `observed` has size 0."
                    result' = Raised("ValueError")
               ELSE \E p_value \in ChiPValues(t) :
                        result' = ChiSquareResult(t, var1, var2, p_value)
        /\ UNCHANGED df

(***************************************************************************)
(* perform_t_test                                                          *)
(***************************************************************************)
\* df[df[group_var] == group][numeric_var].dropna(): the sample of a group,
\* as the bag of its numbers.
GroupSample(d, numeric_var, group_var, group) ==
    LET rs == {r \in DOMAIN d.rows :
                  r[group_var] = group /\ r[numeric_var] # NullNum}
        vs == {r[numeric_var][1] : r \in rs}
    IN  [v \in vs |-> SumOver(d.rows, {r \in rs : r[numeric_var][1] = v})]

\* len(data)
SampleLen(data) == SumOver(data, DOMAIN data)

SampleSum(data) == SumOver([v \in DOMAIN data |-> data[v] * v], DOMAIN data)

SampleSumSq(data) == SumOver([v \in DOMAIN data |-> data[v] * v * v], DOMAIN data)

\* Series.mean(): NaN for an empty sample.
SampleMean(data) ==
    IF SampleLen(data) = 0 THEN NaN
    ELSE Num(Q(SampleSum(data), SampleLen(data)))

\* The sample variance with n - 1 in the denominator.
SampleVar(data) ==
    LET n == SampleLen(data)
        t == SampleSum(data)
    IN  Q(n * SampleSumSq(data) - t * t, n * (n - 1))

\* Series.std(): NaN for a sample of fewer than two numbers.
SampleStd(data) ==
    IF SampleLen(data) < 2 THEN NaN ELSE FSqrt(Num(SampleVar(data)))

\* The p-values scipy.stats.shapiro may return for a sample of three numbers
\* or more.
ShapiroPValues == {Num(QZero), Num(Q(1, 20)), Num(Q(3, 50)), NaN}

\* NormalityPValues with <= for <: a sample of ShapiroMaxN numbers is
\* still tested.
NormalityPValuesOffByOne(data) ==
    IF SampleLen(data) <= ShapiroMaxN
    THEN (IF SampleLen(data) < 3 THEN {NaN} ELSE ShapiroPValues)
    ELSE {Num(QOne)}

\* stats.shapiro(data) if len(data) < 5000 else (None, 1): the p-values the
\* normality check of a group may give.  For a sample too small for
\* shapiro (fewer than three numbers) the library gives NaN, where it does
\* not raise (see PerformTTest).
NormalityPValues(data) ==
    IF SampleLen(data) < ShapiroMaxN
    THEN (IF SampleLen(data) < 3 THEN {NaN} ELSE ShapiroPValues)
    ELSE {Num(QOne)}

\* The p-values scipy.stats.levene may return: NaN for an empty sample.
LevenePValues(data1, data2) ==
    IF SampleLen(data1) = 0 \/ SampleLen(data2) = 0
    THEN {NaN}
    ELSE {Num(Q(1, 20)), Num(Q(3, 50)), NaN}

\* The p-values ttest_ind and mannwhitneyu may return: NaN for an empty
\* sample.
TestPValues(data1, data2) ==
    IF SampleLen(data1) = 0 \/ SampleLen(data2) = 0
    THEN {NaN}
    ELSE {Num(Q(1, 25)), Num(Q(1, 20)), NaN}

\* TestType without the check of the variances.
TestTypeIgnoringLevene(p_norm1, p_norm2, p_levene) ==
    IF /\ Truthy(p_norm1) /\ Truthy(p_norm2)
       /\ FGt(p_norm1, Alpha) /\ FGt(p_norm2, Alpha)
    THEN "T-test (varianzas iguales)"
    ELSE "Mann-Whitney U"

\* The branch of the decision on which test to use.
TestType(p_norm1, p_norm2, p_levene) ==
    IF /\ Truthy(p_norm1) /\ Truthy(p_norm2)
       /\ FGt(p_norm1, Alpha) /\ FGt(p_norm2, Alpha)
    THEN (IF FGt(p_levene, Alpha)
          THEN "T-test (varianzas iguales)"
          ELSE "T-test de Welch (varianzas diferentes)")
    ELSE "Mann-Whitney U"

\* CohensD with the two means swapped.
CohensDSwapped(data1, data2) ==
    LET mean1 == SampleMean(data1)
        mean2 == SampleMean(data2)
        std1  == SampleStd(data1)
        std2  == SampleStd(data2)
        pooled_std == FSqrt(FDiv(FAdd(FSq(std1), FSq(std2)), Num(QInt(2))))
    IN  IF FGt(pooled_std, QZero)
        THEN FDiv(FSub(mean2, mean1), pooled_std)
        ELSE Num(QZero)

\* CohensD with the pooled deviation taken without halving the sum of the
\* variances.
CohensDUnhalved(data1, data2) ==
    LET mean1 == SampleMean(data1)
        mean2 == SampleMean(data2)
        std1  == SampleStd(data1)
        std2  == SampleStd(data2)
        pooled_std == FSqrt(FAdd(FSq(std1), FSq(std2)))
    IN  IF FGt(pooled_std, QZero)
        THEN FDiv(FSub(mean1, mean2), pooled_std)
        ELSE Num(QZero)

\* Cohen's d of two samples: 0 unless the pooled deviation is above 0.
CohensD(data1, data2) ==
    LET mean1 == SampleMean(data1)
        mean2 == SampleMean(data2)
        std1  == SampleStd(data1)
        std2  == SampleStd(data2)
        pooled_std == FSqrt(FDiv(FAdd(FSq(std1), FSq(std2)), Num(QInt(2))))
    IN  IF FGt(pooled_std, QZero)
        THEN FDiv(FSub(mean1, mean2), pooled_std)
        ELSE Num(QZero)

InterpretCohensD(d) ==
    IF FLt(d, Q(1, 5)) THEN "Efecto despreciable"
    ELSE IF FLt(d, Q(1, 2)) THEN "Efecto pequeno"
    ELSE IF FLt(d, Q(4, 5)) THEN "Efecto mediano"
    ELSE "Efecto grande"

\* CohensDLabel without abs().
CohensDLabelSigned(cohens_d) == InterpretCohensD(cohens_d)

\* The effect size label perform_t_test gives a Cohen's d.
CohensDLabel(cohens_d) == InterpretCohensD(FAbs(cohens_d))

\* The value perform_t_test returns for two samples and the p-values the
\* library gave for them.
TTestResult(data1, data2, group1, group2, p_norm1, p_norm2, p_levene, p_value) ==
    LET test_type == TestType(p_norm1, p_norm2, p_levene)
        cohens_d  == CohensD(data1, data2)
        is_significant == IsSignificant(p_value)
    IN  [kind           |-> "t_test",
         test_type      |-> test_type,
         statistic      |-> IF test_type = "Mann-Whitney U" THEN "u_stat" ELSE "t_stat",
         p_value        |-> p_value,
         mean_group1    |-> SampleMean(data1),
         mean_group2    |-> SampleMean(data2),
         std_group1     |-> SampleStd(data1),
         std_group2     |-> SampleStd(data2),
         cohens_d       |-> cohens_d,
         effect_size    |-> CohensDLabel(cohens_d),
         is_significant |-> is_significant,
         interpretation |->
             Interpretation(is_significant, "diferencia significativa entre",
                            <<group1, group2>>, p_value),
         n_group1       |-> SampleLen(data1),
         n_group2       |-> SampleLen(data2)]

\* smallSampleRaises: whether the installed scipy raises ValueError on a
\* sample too small for shapiro ("Data must be at least length 3"), or
\* gives NaN for it, as its later versions do.
PerformTTest ==
    \E numeric_var \in NumericColumns(df), group_var \in CategoricalColumns(df),
       group1 \in GroupLabels, group2 \in GroupLabels, smallSampleRaises \in BOOLEAN :
        LET data1 == GroupSample(df, numeric_var, group_var, group1)
            data2 == GroupSample(df, numeric_var, group_var, group2)
            args  == [op |-> "perform_t_test", numeric_var |-> numeric_var,
                      group_var |-> group_var, group1 |-> group1, group2 |-> group2]
        IN  /\ Idle
            /\ group1 # group2
            /\ IF smallSampleRaises /\ (SampleLen(data1) < 3 \/ SampleLen(data2) < 3)
               THEN /\ call' = args
                    /\ result' = Raised("ValueError")
               ELSE \E p_norm1 \in NormalityPValues(data1),
                       p_norm2 \in NormalityPValues(data2),
                       p_levene \in LevenePValues(data1, data2),
                       p_value \in TestPValues(data1, data2) :
                        /\ call' = args @@ [p_norm1 |-> p_norm1, p_norm2 |-> p_norm2,
                                            p_levene |-> p_levene]
                        /\ result' = TTestResult(data1, data2, group1, group2,
                                                 p_norm1, p_norm2, p_levene, p_value)
            /\ UNCHANGED df

(***************************************************************************)
(* perform_anova                                                           *)
(***************************************************************************)
\* The names df.groupby(group_var) iterates over: the values present in the
\* grouping column (a row whose grouping cell is missing is in no group).
GroupNames(d, group_var) == {r[group_var] : r \in DOMAIN d.rows} \ {NA}

\* df[numeric_var].mean(): the mean of the numbers of the whole column,
\* NaN when it holds none.
ColumnMean(d, numeric_var) ==
    LET rs == {r \in DOMAIN d.rows : r[numeric_var] # NullNum}
        n  == SumOver(d.rows, rs)
        t  == SumOver([r \in rs |-> d.rows[r] * r[numeric_var][1]], rs)
    IN  IF n = 0 THEN NaN ELSE Num(Q(t, n))

\* sum() of a list of floats, from the integer 0.
RECURSIVE FSumOver(_, _)
FSumOver(f, S) ==
    IF S = {} THEN Num(QZero)
    ELSE LET e == CHOOSE e \in S : TRUE IN FAdd(f[e], FSumOver(f, S \ {e}))

\* sum([len(g) * (g.mean() - grand_mean)**2 for g in groups])
SSBetween(groups, grand_mean) ==
    FSumOver([name \in DOMAIN groups |->
                 FMul(Num(QInt(SampleLen(groups[name]))),
                      FSq(FSub(SampleMean(groups[name]), grand_mean)))],
             DOMAIN groups)

\* sum([(x - grand_mean)**2 for g in groups for x in g])
SSTotal(groups, grand_mean) ==
    FSumOver([name \in DOMAIN groups |->
                 FSumOver([x \in DOMAIN groups[name] |->
                              FMul(Num(QInt(groups[name][x])),
                                   FSq(FSub(Num(QInt(x)), grand_mean)))],
                          DOMAIN groups[name])],
             DOMAIN groups)

\* ss_between / ss_total if ss_total > 0 else 0
EtaSquared(ss_between, ss_total) ==
    IF FGt(ss_total, QZero) THEN FDiv(ss_between, ss_total) ELSE Num(QZero)

\* InterpretEtaSquared with <= for <.
InterpretEtaSquaredInclusive(eta2) ==
    IF FLe(eta2, Q(1, 100)) THEN "Efecto despreciable"
    ELSE IF FLe(eta2, Q(3, 50)) THEN "Efecto pequeno"
    ELSE IF FLe(eta2, Q(7, 50)) THEN "Efecto mediano"
    ELSE "Efecto grande"

InterpretEtaSquared(eta2) ==
    IF FLt(eta2, Q(1, 100)) THEN "Efecto despreciable"
    ELSE IF FLt(eta2, Q(3, 50)) THEN "Efecto pequeno"
    ELSE IF FLt(eta2, Q(7, 50)) THEN "Efecto mediano"
    ELSE "Efecto grande"

\* The k-th smallest number of a sample, k in 1..len.
KthSmallest(data, k) ==
    CHOOSE v \in DOMAIN data :
        /\ SumOver(data, {u \in DOMAIN data : u < v}) < k
        /\ SumOver(data, {u \in DOMAIN data : u <= v}) >= k

\* Series.median(): NaN for an empty sample.
SampleMedian(data) ==
    LET n == SampleLen(data)
    IN  IF n = 0 THEN NaN
        ELSE IF n % 2 = 1 THEN Num(QInt(KthSmallest(data, (n + 1) \div 2)))
        ELSE Num(Q(KthSmallest(data, n \div 2) + KthSmallest(data, n \div 2 + 1), 2))

\* The p-values scipy.stats.f_oneway may return for two groups or more: NaN
\* when a group is empty or every group holds one number, else the F
\* distribution's survival function of the statistic (NaN for constant data).
FOnewayPValues(groups) ==
    IF \/ \E name \in DOMAIN groups : SampleLen(groups[name]) = 0
       \/ \A name \in DOMAIN groups : SampleLen(groups[name]) = 1
    THEN {NaN}
    ELSE {Num(Q(1, 25)), Num(Q(1, 20)), NaN}

\* FOnewayRaises accepting a single sample.
FOnewayRaisesOnNone(groups) == Cardinality(DOMAIN groups) < 1

\* scipy.stats.f_oneway raises TypeError unless it is given two samples.
FOnewayRaises(groups) == Cardinality(DOMAIN groups) < 2

\* The value perform_anova returns for its groups, the mean of the whole
\* column and the p-value the library gave.
AnovaResult(groups, grand_mean, p_value) ==
    LET ss_between  == SSBetween(groups, grand_mean)
        ss_total    == SSTotal(groups, grand_mean)
        eta_squared == EtaSquared(ss_between, ss_total)
        is_significant == IsSignificant(p_value)
    IN  [kind           |-> "anova",
         f_statistic    |-> "f_stat",
         p_value        |-> p_value,
         eta_squared    |-> eta_squared,
         effect_size    |-> InterpretEtaSquared(eta_squared),
         is_significant |-> is_significant,
         interpretation |->
             Interpretation(is_significant, "diferencia significativa entre",
                            <<"grupos">>, p_value),
         group_stats    |->
             [name \in DOMAIN groups |->
                 [n      |-> SampleLen(groups[name]),
                  mean   |-> SampleMean(groups[name]),
                  std    |-> SampleStd(groups[name]),
                  median |-> SampleMedian(groups[name])]],
         n_groups       |-> Cardinality(DOMAIN groups)]

PerformAnova ==
    \E numeric_var \in NumericColumns(df), group_var \in CategoricalColumns(df) :
        LET groups == [name \in GroupNames(df, group_var) |->
                          GroupSample(df, numeric_var, group_var, name)]
            grand_mean == ColumnMean(df, numeric_var)
            args == [op |-> "perform_anova", numeric_var |-> numeric_var,
                     group_var |-> group_var]
        IN  /\ Idle
            /\ IF FOnewayRaises(groups)
               THEN /\ call' = args
                    /\ result' = Raised("TypeError")
               ELSE \E p_value \in FOnewayPValues(groups) :
                        /\ call' = args @@
                               [grand_mean |-> grand_mean,
                                ss_between |-> SSBetween(groups, grand_mean),
                                ss_total   |-> SSTotal(groups, grand_mean)]
                        /\ result' = AnovaResult(groups, grand_mean, p_value)
            /\ UNCHANGED df

(***************************************************************************)
(* calculate_proportion_ci                                                 *)
(***************************************************************************)
\* The confidence levels the model calls calculate_proportion_ci with; 0.95
\* is the default.
ConfidenceLevels == {Q(9, 10), Q(19, 20), Q(99, 100)}

\* scipy.stats.norm.ppf at the quantiles of ConfidenceLevels, to three
\* decimals.
NormPpf(q) ==
    CASE q = Q(19, 20)   -> Q(329, 200)
      [] q = Q(39, 40)   -> Q(49, 25)
      [] q = Q(199, 200) -> Q(322, 125)

\* Python's max(0, x) and min(1, x): the first argument unless the second
\* compares beyond it, so also for NaN.
Max0(x) == IF FGt(x, QZero) THEN x ELSE Num(QZero)

Min1(x) == IF FLt(x, QOne) THEN x ELSE Num(QOne)

\* ProportionCI giving the whole of [0, 1] for no observations.
ProportionCIWholeRange(successes, total, confidence) ==
    IF total = 0 THEN <<Num(QZero), Num(QOne)>>
    ELSE LET p  == Q(successes, total)
             z  == NormPpf(QSub(QOne, QDiv(QSub(QOne, confidence), QInt(2))))
             se == FSqrt(Num(QDiv(QMul(p, QSub(QOne, p)), QInt(total))))
             ci_lower == Max0(FSub(Num(p), FMul(Num(z), se)))
             ci_upper == Min1(FAdd(Num(p), FMul(Num(z), se)))
         IN  <<ci_lower, ci_upper>>

\* ProportionCI without the clipping to [0, 1].
ProportionCIUnclipped(successes, total, confidence) ==
    IF total = 0 THEN <<Num(QZero), Num(QZero)>>
    ELSE LET p  == Q(successes, total)
             z  == NormPpf(QSub(QOne, QDiv(QSub(QOne, confidence), QInt(2))))
             se == FSqrt(Num(QDiv(QMul(p, QSub(QOne, p)), QInt(total))))
         IN  <<FSub(Num(p), FMul(Num(z), se)), FAdd(Num(p), FMul(Num(z), se))>>

\* The pair calculate_proportion_ci returns.
ProportionCI(successes, total, confidence) ==
    IF total = 0 THEN <<Num(QZero), Num(QZero)>>
    ELSE LET p  == Q(successes, total)
             z  == NormPpf(QSub(QOne, QDiv(QSub(QOne, confidence), QInt(2))))
             se == FSqrt(Num(QDiv(QMul(p, QSub(QOne, p)), QInt(total))))
             ci_lower == Max0(FSub(Num(p), FMul(Num(z), se)))
             ci_upper == Min1(FAdd(Num(p), FMul(Num(z), se)))
         IN  <<ci_lower, ci_upper>>

CalculateProportionCI ==
    \E successes \in 0..MaxTotal, total \in 0..MaxTotal,
       confidence \in ConfidenceLevels :
        /\ Idle
        /\ call' = [op |-> "calculate_proportion_ci", successes |-> successes,
                    total |-> total, confidence |-> confidence]
        /\ result' = [kind |-> "proportion_ci",
                      ci  |-> ProportionCI(successes, total, confidence)]
        /\ UNCHANGED df

(***************************************************************************)
(* calculate_cancellation_metrics                                          *)
(***************************************************************************)
\* The cancellation datasets: two categorical columns, hotel and
\* deposit_type, and the binary outcome is_canceled.
BookingHotels == {"City Hotel", "Resort Hotel"}

DepositTypes == {"No Deposit", "Non Refund"}

CancellationRows ==
    [hotel : BookingHotels \cup {NA}, deposit_type : DepositTypes,
     is_canceled : {0, 1}]

CancellationDatasets ==
    {[dtypes |-> [hotel |-> "category", deposit_type |-> "category",
                  is_canceled |-> "int"],
      rows |-> b] : b \in BagsUpTo(CancellationRows, MaxRows)}

\* The categories a categorical column was declared with when it was loaded.
Categories(column) ==
    CASE column = "hotel"        -> BookingHotels
      [] column = "deposit_type" -> DepositTypes

GroupVarLists == {<<"hotel">>, <<"deposit_type">>, <<"hotel", "deposit_type">>}

\* The key of a row under the grouping variables.
GroupKey(r, group_vars) ==
    IF Len(group_vars) = 1
    THEN <<r[group_vars[1]]>>
    ELSE <<r[group_vars[1]], r[group_vars[2]]>>

\* The keys df.groupby(group_vars) gives a row of the result: the keys
\* present in the data, a row with a missing key being in no group; with
\* observed = False (the default of pandas before 3.0 for categorical
\* keys), every combination of the declared categories.
GroupKeys(d, group_vars, observed) ==
    IF observed
    THEN {k \in {GroupKey(r, group_vars) : r \in DOMAIN d.rows} :
             \A i \in DOMAIN k : k[i] # NA}
    ELSE IF Len(group_vars) = 1
         THEN {<<a>> : a \in Categories(group_vars[1])}
         ELSE {<<a, b>> : a \in Categories(group_vars[1]),
                          b \in Categories(group_vars[2])}

\* One row of the metrics: sum, mean and count of is_canceled over the
\* rows of a key, and the columns derived from them.
MetricsRow(d, group_vars, key) ==
    LET rs    == {r \in DOMAIN d.rows : GroupKey(r, group_vars) = key}
        count == SumOver(d.rows, rs)
        sum   == SumOver([r \in rs |-> d.rows[r] * r.is_canceled], rs)
        mean  == IF count = 0 THEN NaN ELSE Num(Q(sum, count))
        ci    == ProportionCI(sum, count, Q(19, 20))
    IN  [key               |-> key,
         cancelaciones     |-> sum,
         tasa_cancelacion  |-> mean,
         total_reservas    |-> count,
         no_canceladas     |-> count - sum,
         tasa_confirmacion |-> FSub(Num(QOne), mean),
         ci_lower          |-> ci[1],
         ci_upper          |-> ci[2]]

\* SortedByRate for ascending = True.
SortedByRateAscending(table) ==
    \A i, j \in DOMAIN table :
        i < j =>
            IF IsNaN(table[i].tasa_cancelacion)
            THEN IsNaN(table[j].tasa_cancelacion)
            ELSE \/ IsNaN(table[j].tasa_cancelacion)
                 \/ QLe(table[i].tasa_cancelacion.a, table[j].tasa_cancelacion.a)

\* sort_values('tasa_cancelacion', ascending=False): the rates descend and
\* the rows without a rate (NaN) come last; rows of equal rate in any order.
SortedByRate(table) ==
    \A i, j \in DOMAIN table :
        i < j =>
            IF IsNaN(table[i].tasa_cancelacion)
            THEN IsNaN(table[j].tasa_cancelacion)
            ELSE \/ IsNaN(table[j].tasa_cancelacion)
                 \/ QLe(table[j].tasa_cancelacion.a, table[i].tasa_cancelacion.a)

\* The tables calculate_cancellation_metrics may return.
CancellationMetrics(d, group_vars, observed) ==
    LET metrics == {MetricsRow(d, group_vars, k) :
                       k \in GroupKeys(d, group_vars, observed)}
    IN  {table \in [1..Cardinality(metrics) -> metrics] :
            Range(table) = metrics /\ SortedByRate(table)}

\* With no group at all, metrics.apply(..., axis=1) gives an empty frame
\* and not a column: assigning it to metrics['ci_lower'] raises ValueError
\* or leaves an empty table, by the version of pandas (emptyApplyRaises).
CalculateCancellationMetrics ==
    \E group_vars \in GroupVarLists, observed \in BOOLEAN,
       emptyApplyRaises \in BOOLEAN :
        LET args == [op |-> "calculate_cancellation_metrics",
                     group_vars |-> group_vars, observed |-> observed]
        IN  /\ Idle
            /\ Range(group_vars) \cup {"is_canceled"} \subseteq DOMAIN df.dtypes
            /\ call' = args
            /\ IF GroupKeys(df, group_vars, observed) = {} /\ emptyApplyRaises
               THEN result' = Raised("ValueError")
               ELSE \E table \in CancellationMetrics(df, group_vars, observed) :
                        result' = [kind |-> "cancellation_metrics", rows |-> table]
            /\ UNCHANGED df

(***************************************************************************)
(* analyze_feature_importance                                              *)
(***************************************************************************)
\* The feature datasets: the binary target is_canceled, a categorical
\* feature hotel and a numeric feature lead_time.
LeadTimes == {0, 1}

FeatureRows ==
    [is_canceled : {0, 1}, hotel : BookingHotels \cup {NA},
     lead_time : {<<v>> : v \in LeadTimes} \cup {NullNum}]

FeatureDatasets ==
    {[dtypes |-> [is_canceled |-> "int", hotel |-> "category",
                  lead_time |-> "float"],
      rows |-> b] : b \in BagsUpTo(FeatureRows, MaxRows)}

FeatureLists ==
    {<<>>, <<"hotel">>, <<"lead_time">>, <<"hotel", "lead_time">>,
     <<"lead_time", "hotel">>}

\* The dataset as pd.crosstab reads it: the values of the integer column
\* are the labels of the table.
AsLabels(d, column) ==
    LET lab(r) == [r EXCEPT ![column] = IF r[column] = 1 THEN "1" ELSE "0"]
    IN  [dtypes |-> d.dtypes,
         rows   |-> [q \in {lab(r) : r \in DOMAIN d.rows} |->
                        SumOver(d.rows, {r \in DOMAIN d.rows : lab(r) = q})]]

\* df[feature].median(): the median of the numbers of the column.
ColumnMedian(d, feature) ==
    LET rs == {r \in DOMAIN d.rows : r[feature] # NullNum}
        vs == {r[feature][1] : r \in rs}
    IN  SampleMedian([v \in vs |->
                         SumOver(d.rows, {r \in rs : r[feature][1] = v})])

\* df[feature].fillna(df[feature].median()): the value of each row, a new
\* column (NaN stays where the median is NaN).
FilledColumn(d, feature) ==
    [r \in DOMAIN d.rows |->
        IF r[feature] = NullNum THEN ColumnMedian(d, feature)
        ELSE Num(QInt(r[feature][1]))]

\* CallersDataset for an imputation done in place: the missing cells of
\* the numeric features hold the median (as a whole number, where it is one).
CallersDatasetFilledInPlace(d, features) ==
    LET numeric == {f \in Range(features) : d.dtypes[f] = "float"}
        fill(r) == [c \in DOMAIN r |->
                       IF /\ c \in numeric
                          /\ r[c] = NullNum
                          /\ ~IsNaN(ColumnMedian(d, c))
                       THEN <<ColumnMedian(d, c).a[1]>>
                       ELSE r[c]]
    IN  [dtypes |-> d.dtypes,
         rows   |-> [q \in {fill(r) : r \in DOMAIN d.rows} |->
                        SumOver(d.rows, {r \in DOMAIN d.rows : fill(r) = q})]]

\* The caller's dataset after analyze_feature_importance: fillna returns a
\* new column and df[feature] is never assigned, so it is the dataset as
\* it was.
CallersDataset(d, features) == d

\* |r| of stats.pointbiserialr(df[target], filled): the absolute value of
\* Pearson's correlation, NaN when a value is NaN or a column is constant.
AbsPointBiserial(d, target, filled) ==
    LET rs  == DOMAIN d.rows
        n   == QInt(NRows(d.rows))
        w(r) == QInt(d.rows[r])
        y(r) == QInt(r[target])
        x(r) == filled[r].a
        sx  == QSumOver([r \in rs |-> QMul(w(r), x(r))], rs)
        sy  == QSumOver([r \in rs |-> QMul(w(r), y(r))], rs)
        sxy == QSumOver([r \in rs |-> QMul(w(r), QMul(x(r), y(r)))], rs)
        sxx == QSumOver([r \in rs |-> QMul(w(r), QSq(x(r)))], rs)
        syy == QSumOver([r \in rs |-> QMul(w(r), QSq(y(r)))], rs)
        cov == QSub(QMul(n, sxy), QMul(sx, sy))
        vx  == QSub(QMul(n, sxx), QSq(sx))
        vy  == QSub(QMul(n, syy), QSq(sy))
    IN  IF \E r \in rs : IsNaN(filled[r]) THEN NaN
        ELSE IF vx = QZero \/ vy = QZero THEN NaN
        ELSE FSqrt(Num(QDiv(QSq(cov), QMul(vx, vy))))

InterpretImportanceScore(score) ==
    IF FLt(score, Q(1, 10)) THEN "Muy baja"
    ELSE IF FLt(score, Q(3, 10)) THEN "Baja"
    ELSE IF FLt(score, Q(1, 2)) THEN "Moderada"
    ELSE IF FLt(score, Q(7, 10)) THEN "Alta"
    ELSE "Muy alta"

\* Whether scoring a feature raises: chi2_contingency on an empty table,
\* pearsonr on fewer than two rows.
FeatureRaises(d, target, feature) ==
    IF d.dtypes[feature] = "category"
    THEN Crosstab(AsLabels(d, target), feature, target).index = {}
    ELSE NRows(d.rows) < 2

\* The row of importance_scores of a feature.
FeatureScore(d, target, feature) ==
    LET categorical == d.dtypes[feature] = "category"
        score ==
            IF categorical
            THEN ChiSquareResult(Crosstab(AsLabels(d, target), feature, target),
                                 feature, target, NaN).cramers_v
            ELSE AbsPointBiserial(d, target, FilledColumn(d, feature))
    IN  [feature          |-> feature,
         importance_score |-> score,
         test_type        |-> IF categorical THEN "Cramer's V" ELSE "Correlacion",
         interpretation   |-> InterpretImportanceScore(score)]

\* sort_values('importance_score', ascending=False) of scores that are not
\* negative: the scores descend and NaN comes last.
SortedByScore(table) ==
    \A i, j \in DOMAIN table :
        i < j =>
            IF IsNaN(table[i].importance_score)
            THEN IsNaN(table[j].importance_score)
            ELSE \/ IsNaN(table[j].importance_score)
                 \/ QLe(FSq(table[j].importance_score).a,
                        FSq(table[i].importance_score).a)

\* The tables analyze_feature_importance may return; rows of equal score
\* in any order.
FeatureImportance(d, target, features) ==
    LET scores == [i \in DOMAIN features |-> FeatureScore(d, target, features[i])]
    IN  {[i \in DOMAIN features |-> scores[perm[i]]] :
            perm \in {q \in [DOMAIN features -> DOMAIN features] :
                         \A i, j \in DOMAIN features : q[i] = q[j] => i = j}}

\* With no feature, importance_df has no column to sort by: KeyError.
AnalyzeFeatureImportance ==
    \E features \in FeatureLists :
        LET target == "is_canceled"
        IN  /\ Idle
            /\ Range(features) \cup {target} \subseteq DOMAIN df.dtypes
            /\ call' = [op |-> "analyze_feature_importance", target |-> target,
                        features |-> features]
            /\ IF \E i \in DOMAIN features : FeatureRaises(df, target, features[i])
               THEN result' = Raised("ValueError")
               ELSE IF features = <<>>
               THEN result' = Raised("KeyError")
               ELSE \E table \in FeatureImportance(df, target, features) :
                        /\ SortedByScore(table)
                        /\ result' = [kind |-> "feature_importance", rows |-> table]
            /\ df' = CallersDataset(df, features)

(***************************************************************************)
(* calculate_business_metrics                                              *)
(***************************************************************************)
\* The datasets of bookings: hotel, is_canceled, lead_time and, where the
\* dataset has them, adr and total_stay_nights (a count of nights).
AdrValues == {<<0>>, <<3>>, NullNum}

StayNights == {0, 1, 2}

BookingRows(columns) ==
    {r \in [hotel : BookingHotels, is_canceled : {0, 1}, lead_time : {<<1>>}]
              \cup [hotel : BookingHotels, is_canceled : {0, 1}, lead_time : {<<1>>},
                    adr : AdrValues]
              \cup [hotel : BookingHotels, is_canceled : {0, 1}, lead_time : {<<1>>},
                    total_stay_nights : StayNights]
              \cup [hotel : BookingHotels, is_canceled : {0, 1}, lead_time : {<<1>>},
                    adr : AdrValues, total_stay_nights : StayNights] :
        DOMAIN r = columns}

BookingColumnSets ==
    {{"hotel", "is_canceled", "lead_time"} \cup optional :
        optional \in SUBSET {"adr", "total_stay_nights"}}

BookingDtypes(columns) ==
    [c \in columns |->
        CASE c = "hotel" -> "category"
          [] c \in {"adr", "lead_time"} -> "float"
          [] OTHER -> "int"]

BookingDatasets ==
    UNION {{[dtypes |-> BookingDtypes(columns), rows |-> b] :
               b \in BagsUpTo(BookingRows(columns), MaxBookings)} :
           columns \in BookingColumnSets}

\* Series.mean() of an integer column over some rows: NaN over no row.
IntMean(d, rs, column) ==
    LET n == SumOver(d.rows, rs)
    IN  IF n = 0 THEN NaN
        ELSE Num(Q(SumOver([r \in rs |-> d.rows[r] * r[column]], rs), n))

\* data[data['adr'] > 0]['adr'].mean() over some rows.
AvgPositiveAdr(d, rs) ==
    LET ps == {r \in rs : r.adr # NullNum /\ r.adr[1] > 0}
        n  == SumOver(d.rows, ps)
    IN  IF n = 0 THEN NaN
        ELSE Num(Q(SumOver([r \in ps |-> d.rows[r] * r.adr[1]], ps), n))

\* PotentialRevenueLoss summed over every booking.
PotentialRevenueLossAllRows(d) ==
    LET rs == {r \in DOMAIN d.rows : r.adr # NullNum}
    IN  Num(QInt(SumOver([r \in rs |-> d.rows[r] * r.adr[1] * r.total_stay_nights],
                         rs)))

\* (canceled_bookings['adr'] * canceled_bookings['total_stay_nights']).sum():
\* a product that is NaN is skipped.
PotentialRevenueLoss(d) ==
    LET rs == {r \in DOMAIN d.rows : r.is_canceled = 1 /\ r.adr # NullNum}
    IN  Num(QInt(SumOver([r \in rs |-> d.rows[r] * r.adr[1] * r.total_stay_nights],
                         rs)))

\* OccupancyRate giving 1 when there is no room night.
OccupancyRateFullWhenEmpty(d) ==
    LET has == "total_stay_nights" \in DOMAIN d.dtypes
        rs  == DOMAIN d.rows
        cs  == {r \in rs : r.is_canceled = 1}
        total_room_nights ==
            IF has THEN SumOver([r \in rs |-> d.rows[r] * r.total_stay_nights], rs)
            ELSE 0
        canceled_room_nights ==
            IF has THEN SumOver([r \in cs |-> d.rows[r] * r.total_stay_nights], cs)
            ELSE 0
    IN  IF total_room_nights > 0
        THEN Num(Q(total_room_nights - canceled_room_nights, total_room_nights))
        ELSE Num(QOne)

\* estimated_occupancy_rate
OccupancyRate(d) ==
    LET has == "total_stay_nights" \in DOMAIN d.dtypes
        rs  == DOMAIN d.rows
        cs  == {r \in rs : r.is_canceled = 1}
        total_room_nights ==
            IF has THEN SumOver([r \in rs |-> d.rows[r] * r.total_stay_nights], rs)
            ELSE 0
        canceled_room_nights ==
            IF has THEN SumOver([r \in cs |-> d.rows[r] * r.total_stay_nights], cs)
            ELSE 0
    IN  IF total_room_nights > 0
        THEN Num(Q(total_room_nights - canceled_room_nights, total_room_nights))
        ELSE Num(QZero)

\* The metrics of one type of hotel.
HotelMetrics(d, hotel_type) ==
    LET hotel_data == {r \in DOMAIN d.rows : r.hotel = hotel_type}
    IN  [cancellation_rate |-> IntMean(d, hotel_data, "is_canceled"),
         avg_adr |-> IF "adr" \in DOMAIN d.dtypes
                     THEN AvgPositiveAdr(d, hotel_data)
                     ELSE Num(QZero)]

\* The dictionary calculate_business_metrics returns: its general entries
\* in scalars, the entries of each type of hotel in by_hotel.
BusinessMetrics(d) ==
    LET rs == DOMAIN d.rows
        general ==
            [total_bookings    |-> Num(QInt(NRows(d.rows))),
             cancellation_rate |-> IntMean(d, rs, "is_canceled"),
             avg_lead_time     |-> ColumnMean(d, "lead_time"),
             avg_adr           |-> IF "adr" \in DOMAIN d.dtypes
                                   THEN AvgPositiveAdr(d, rs)
                                   ELSE Num(QZero),
             estimated_occupancy_rate |-> OccupancyRate(d)]
        loss ==
            IF {"adr", "total_stay_nights"} \subseteq DOMAIN d.dtypes
            THEN [potential_revenue_loss |-> PotentialRevenueLoss(d)]
            ELSE [k \in {} |-> NaN]
    IN  [kind     |-> "business_metrics",
         scalars  |-> general @@ loss,
         by_hotel |-> [h \in {r.hotel : r \in rs} |-> HotelMetrics(d, h)]]

CalculateBusinessMetrics ==
    /\ Idle
    /\ {"hotel", "is_canceled", "lead_time"} \subseteq DOMAIN df.dtypes
    /\ call' = [op |-> "calculate_business_metrics"]
    /\ result' = BusinessMetrics(df)
    /\ UNCHANGED df

(***************************************************************************)
(* clean_data                                                              *)
(***************************************************************************)
\* The datasets of stays: adults and the two counts of nights and, where
\* the dataset has them, adr and children (both floats, possibly missing).
StayAdrValues == {<<-1>>, <<0>>, <<5000>>, NullNum}

ChildrenValues == {<<0>>, <<1>>, NullNum}

StayRows(columns) ==
    {r \in [adults : {0, 1}, stays_in_weekend_nights : {0, 1},
             stays_in_week_nights : {0, 1}]
              \cup [adults : {0, 1}, stays_in_weekend_nights : {0, 1},
                    stays_in_week_nights : {0, 1}, adr : StayAdrValues]
              \cup [adults : {0, 1}, stays_in_weekend_nights : {0, 1},
                    stays_in_week_nights : {0, 1}, children : ChildrenValues]
              \cup [adults : {0, 1}, stays_in_weekend_nights : {0, 1},
                    stays_in_week_nights : {0, 1}, adr : StayAdrValues,
                    children : ChildrenValues] :
        DOMAIN r = columns}

StayColumnSets ==
    {{"adults", "stays_in_weekend_nights", "stays_in_week_nights"} \cup optional :
        optional \in SUBSET {"adr", "children"}}

StayDtypes(columns) ==
    [c \in columns |-> IF c \in {"adr", "children"} THEN "float" ELSE "int"]

StayDatasets ==
    UNION {{[dtypes |-> StayDtypes(columns), rows |-> b] :
               b \in BagsUpTo(StayRows(columns), MaxStays)} :
           columns \in StayColumnSets}

\* The rows of a DataFrame among those of a set, each as often as it
\* occurs: df[condition], for the set of the rows that satisfy it.
RowsAmong(rows, kept) == [r \in DOMAIN rows \cap kept |-> rows[r]]

\* df.drop_duplicates(): one row of each kind, two missing values of a
\* column counting as equal.
DropDuplicates(rows) == [r \in DOMAIN rows |-> 1]

\* (df['adr'] >= 0) & (df['adr'] < 5000), false on a missing adr.
AdrInRange(r) == r.adr # NullNum /\ r.adr[1] >= 0 /\ r.adr[1] < 5000

\* df['children'].fillna(0) on the rows: the rows that become equal are
\* counted together.
FillChildren(rows) ==
    LET filled(r) == IF r.children = NullNum THEN [r EXCEPT !.children = <<0>>] ELSE r
        images == {filled(r) : r \in DOMAIN rows}
    IN  [i \in images |-> SumOver(rows, {r \in DOMAIN rows : filled(r) = i})]

\* (df['adults'] > 0) | (df['children'] > 0)
HasGuests(r) == r.adults > 0 \/ (r.children # NullNum /\ r.children[1] > 0)

\* (df['stays_in_weekend_nights'] + df['stays_in_week_nights']) > 0
HasNights(r) == r.stays_in_weekend_nights + r.stays_in_week_nights > 0

\* clean_data(df): the steps in the order of the code, each under the
\* condition on the columns the code puts on it.
CleanedData(d) ==
    LET columns == DOMAIN d.dtypes
        unique  == DropDuplicates(d.rows)
        ranged  == IF "adr" \in columns THEN RowsAmong(unique, {r \in DOMAIN unique : AdrInRange(r)})
                   ELSE unique
        filled  == IF "children" \in columns THEN FillChildren(ranged) ELSE ranged
        guests  == IF {"adults", "children"} \subseteq columns
                   THEN RowsAmong(filled, {r \in DOMAIN filled : HasGuests(r)})
                   ELSE filled
        nights  == IF {"stays_in_weekend_nights", "stays_in_week_nights"} \subseteq columns
                   THEN RowsAmong(guests, {r \in DOMAIN guests : HasNights(r)})
                   ELSE guests
    IN  [dtypes |-> d.dtypes, rows |-> nights]

CleanData ==
    /\ Idle
    /\ call' = [op |-> "clean_data"]
    /\ result' = [kind |-> "clean_data", data |-> CleanedData(df)]
    /\ UNCHANGED df

InitCleaning ==
    /\ df \in StayDatasets
    /\ call = NoCall
    /\ result = NoResult

NextCleaning == CleanData \/ Discard

SpecCleaning == InitCleaning /\ [][NextCleaning]_vars

(***************************************************************************)
(* create_derived_features                                                 *)
(***************************************************************************)
\* The lead times of the bookings: the edges of the bins, the value after
\* each edge, and a missing value.
LeadTimeValues ==
    {<<v>> : v \in {0, 1, 7, 8, 14, 15, 30, 31, 60, 61, 90, 91, 180, 181, 365, 366}}
        \cup {NullNum}

\* The datasets of raw bookings, with no adr and no room type columns.
RawBookingRows ==
    [hotel : BookingHotels, lead_time : LeadTimeValues, adults : {1},
     children : {<<0>>, <<1>>, NullNum}, babies : {0, 1},
     stays_in_weekend_nights : {0}, stays_in_week_nights : {0, 1, 2},
     arrival_date_month : {"January", "July"}]

RawBookingDtypes ==
    [c \in {"hotel", "arrival_date_month"} |-> "category"]
        @@ [c \in {"lead_time", "children"} |-> "float"]
        @@ [c \in {"adults", "babies", "stays_in_weekend_nights",
                   "stays_in_week_nights"} |-> "int"]

RawBookingDatasets ==
    {[dtypes |-> RawBookingDtypes, rows |-> b] :
        b \in BagsUpTo(RawBookingRows, MaxRawBookings)}

\* pd.cut(column, bins = edges followed by np.inf, labels, right = True) on
\* one value: the label of the interval (edge, next edge] the value is in,
\* and no label for a missing value and for a value that is not above the
\* first edge.
Cut(v, edges, labels) ==
    IF v = NullNum \/ v[1] <= edges[1] THEN NA
    ELSE LET inside == {i \in 1..(Len(edges) - 1) : v[1] <= edges[i + 1]}
         IN  IF inside = {} THEN labels[Len(labels)]
             ELSE labels[CHOOSE i \in inside : \A j \in inside : i <= j]

LeadTimeEdges == <<0, 7, 14, 30, 60, 90, 180, 365>>

LeadTimeLabels == <<"0-7", "8-14", "15-30", "31-60", "61-90", "91-180", "181-365", ">365">>

\* season_map on the months of the bookings.
SeasonMap(month) ==
    CASE month \in {"December", "January", "February"} -> "Winter"
      [] month \in {"March", "April", "May"} -> "Spring"
      [] month \in {"June", "July", "August"} -> "Summer"
      [] month \in {"September", "October", "November"} -> "Fall"
      [] OTHER -> NA

\* The booking with its derived columns.
DerivedRow(r) ==
    LET children == IF r.children = NullNum THEN 0 ELSE r.children[1]
        nights   == r.stays_in_weekend_nights + r.stays_in_week_nights
    IN  [c \in DOMAIN r \cup {"total_guests", "total_stay_nights", "lead_time_bucket",
                              "is_city_hotel", "is_family", "season",
                              "stay_duration_category"} |->
           CASE c = "total_guests" -> <<r.adults + children + r.babies>>
             [] c = "total_stay_nights" -> nights
             [] c = "lead_time_bucket" -> Cut(r.lead_time, LeadTimeEdges, LeadTimeLabels)
             [] c = "is_city_hotel" -> IF r.hotel = "City Hotel" THEN 1 ELSE 0
             [] c = "is_family" -> IF children > 0 \/ r.babies > 0 THEN 1 ELSE 0
             [] c = "season" -> SeasonMap(r.arrival_date_month)
             [] c = "stay_duration_category" ->
                    Cut(<<nights>>, <<0, 1, 3, 7, 14>>,
                        <<"1 night", "2-3 nights", "4-7 nights", "8-14 nights",
                          ">14 nights">>)
             [] OTHER -> r[c]]

\* create_derived_features(df): the rows with their derived columns; two
\* rows that are equal have equal derived columns.
DerivedFeatures(d) ==
    [dtypes |-> d.dtypes @@ [c \in {"lead_time_bucket", "season",
                                     "stay_duration_category"} |-> "category"]
                         @@ [c \in {"total_guests"} |-> "float"]
                         @@ [c \in {"total_stay_nights", "is_city_hotel",
                                     "is_family"} |-> "int"],
     rows   |-> [s \in {DerivedRow(r) : r \in DOMAIN d.rows} |->
                    SumOver(d.rows, {r \in DOMAIN d.rows : DerivedRow(r) = s})]]

CreateDerivedFeatures ==
    /\ Idle
    /\ {"adults", "children", "babies", "stays_in_weekend_nights",
         "stays_in_week_nights", "lead_time", "hotel", "arrival_date_month"}
            \subseteq DOMAIN df.dtypes
    /\ call' = [op |-> "create_derived_features"]
    /\ result' = [kind |-> "derived_features", data |-> DerivedFeatures(df)]
    /\ UNCHANGED df

InitDerived ==
    /\ df \in RawBookingDatasets
    /\ call = NoCall
    /\ result = NoResult

NextDerived == CreateDerivedFeatures \/ Discard

SpecDerived == InitDerived /\ [][NextDerived]_vars

(***************************************************************************)
(* Specifications.  Spec: the caller holds a small categorical or grouped  *)
(* dataset and calls any function on it, any number of times.  SpecTTest:  *)
(* perform_t_test alone, also on the datasets with large groups.           *)
(***************************************************************************)
Init ==
    /\ df \in CategoricalDatasets \cup SmallGroupedDatasets
    /\ call = NoCall
    /\ result = NoResult

Next ==
    \/ PerformChiSquareTest
    \/ PerformTTest
    \/ PerformAnova
    \/ Discard

Spec == Init /\ [][Next]_vars

InitChiSquare ==
    /\ df \in CategoricalDatasets
    /\ call = NoCall
    /\ result = NoResult

NextChiSquare == PerformChiSquareTest \/ Discard

SpecChiSquare == InitChiSquare /\ [][NextChiSquare]_vars

InitTTest ==
    /\ df \in SmallGroupedDatasets \cup LargeGroupedDatasets
                \cup {GroupedDataset(ScenarioGroups)}
    /\ call = NoCall
    /\ result = NoResult

NextTTest == PerformTTest \/ Discard

SpecTTest == InitTTest /\ [][NextTTest]_vars

NextAnova == PerformAnova \/ Discard

SpecAnova == InitTTest /\ [][NextAnova]_vars

\* calculate_proportion_ci reads no dataset: the caller's is empty here.
InitProportionCI ==
    /\ df = GroupedDataset(SeqToBag(<<>>))
    /\ call = NoCall
    /\ result = NoResult

NextProportionCI == CalculateProportionCI \/ Discard

SpecProportionCI == InitProportionCI /\ [][NextProportionCI]_vars

InitCancellation ==
    /\ df \in CancellationDatasets
    /\ call = NoCall
    /\ result = NoResult

NextCancellation == CalculateCancellationMetrics \/ Discard

SpecCancellation == InitCancellation /\ [][NextCancellation]_vars

InitImportance ==
    /\ df \in FeatureDatasets
    /\ call = NoCall
    /\ result = NoResult

NextImportance == AnalyzeFeatureImportance \/ Discard

SpecImportance == InitImportance /\ [][NextImportance]_vars

InitBusiness ==
    /\ df \in BookingDatasets
    /\ call = NoCall
    /\ result = NoResult

NextBusiness == CalculateBusinessMetrics \/ Discard

SpecBusiness == InitBusiness /\ [][NextBusiness]_vars

\* Every booking of the dataset, where it has a hotel column, is of the
\* same hotel.
OneHotel(d) ==
    \A r \in DOMAIN d.rows : "hotel" \in DOMAIN r => r.hotel = "City Hotel"

\* SpecEngine: the caller holds a dataset of any of the kinds above and
\* calls any operation its columns allow, any number of times.  The
\* datasets are the smallest of each kind and the feature datasets, all of
\* one hotel.
EngineDatasets ==
    {d \in CategoricalDatasets \cup SmallGroupedDatasets \cup CancellationDatasets
            \cup BookingDatasets :
        NRows(d.rows) <= MaxEngineRows /\ OneHotel(d)}
    \cup {d \in FeatureDatasets : OneHotel(d)}

InitEngine ==
    /\ df \in EngineDatasets
    /\ call = NoCall
    /\ result = NoResult

NextEngine ==
    \/ PerformChiSquareTest
    \/ PerformTTest
    \/ PerformAnova
    \/ CalculateCancellationMetrics
    \/ CalculateProportionCI
    \/ AnalyzeFeatureImportance
    \/ CalculateBusinessMetrics
    \/ Discard

SpecEngine == InitEngine /\ [][NextEngine]_vars

(***************************************************************************)
(* The claims.                                                             *)
(***************************************************************************)
\* p < 0.05 and p > 0.05 for a p-value (false for NaN).
BelowAlpha(p) == ~p.nan /\ p.s = 0 /\ 20 * p.a[1] < p.a[2]

AboveAlpha(p) == ~p.nan /\ p.s = 0 /\ 20 * p.a[1] > p.a[2]

\* The values present in a column of the caller's dataset.
ObservedValues(column) == {r[column] : r \in DOMAIN df.rows} \ {NA}

\* The label of a value by three thresholds, each threshold in the higher
\* bucket.
Bucket(v, t1, t2, t3) ==
    IF FLt(v, t1) THEN "Efecto despreciable"
    ELSE IF FLt(v, t2) THEN "Efecto pequeno"
    ELSE IF FLt(v, t3) THEN "Efecto mediano"
    ELSE "Efecto grande"

\* The sign of a float that is a rational or a pure root.
FSign(x) == IF x.s # 0 THEN x.s ELSE ISign(x.a[1])

\* C1: in every result of perform_chi_square_test, perform_t_test and
\* perform_anova, is_significant is true exactly when p_value < 0.05 (so
\* not for p_value = 0.05), and the interpretation says "Existe" exactly
\* when is_significant is true.
C1_SignificanceFlag ==
    result.kind \in {"chi_square", "t_test", "anova"} =>
        /\ result.is_significant = BelowAlpha(result.p_value)
        /\ (result.interpretation[1] = "Existe") = result.is_significant
        /\ result.interpretation[1] \in {"Existe", "No existe"}
        /\ result.interpretation[4] = result.p_value

\* A chi-square result whose p-value is 0.05 itself: not significant.
C1_Witness ==
    /\ result.kind = "chi_square"
    /\ result.p_value = Num(Q(1, 20))
    /\ ~result.is_significant
    /\ result.interpretation[1] = "No existe"

\* C2: for every non-empty dataset and every pair of categorical columns,
\* perform_chi_square_test returns cramers_v with 0 <= cramers_v <= 1, and
\* cramers_v = 0, without raising, when var1 or var2 has exactly one
\* observed value.
C2_CramersVRange ==
    (call.op = "perform_chi_square_test" /\ NRows(df.rows) > 0) =>
        /\ result.kind = "chi_square"
        /\ FGe(result.cramers_v, QZero)
        /\ FLe(result.cramers_v, QOne)
        /\ (\/ Cardinality(ObservedValues(call.var1)) = 1
            \/ Cardinality(ObservedValues(call.var2)) = 1)
           => FEq(result.cramers_v, QZero)

\* C3: a group passes normality when it has 5000 numbers or more or its
\* Shapiro p-value is > 0.05; the test is the equal-variance t-test when
\* both groups pass and the Levene p-value is > 0.05, Welch's t-test when
\* both pass and it is not, Mann-Whitney U when a group fails; test_type
\* names that branch and no other.
C3_TestSelection ==
    result.kind = "t_test" =>
        LET normal == /\ (result.n_group1 >= 5000 \/ AboveAlpha(call.p_norm1))
                      /\ (result.n_group2 >= 5000 \/ AboveAlpha(call.p_norm2))
            equal  == AboveAlpha(call.p_levene)
        IN  /\ (result.test_type = "T-test (varianzas iguales)") = (normal /\ equal)
            /\ (result.test_type = "T-test de Welch (varianzas diferentes)")
                   = (normal /\ ~equal)
            /\ (result.test_type = "Mann-Whitney U") = ~normal

\* A group of 5000 numbers, untested, beside a tested group of 4999 that
\* passes, with a Levene p-value that is NaN: Welch's t-test.
C3_Witness ==
    /\ result.kind = "t_test"
    /\ result.n_group1 = 5000
    /\ result.n_group2 = 4999
    /\ AboveAlpha(call.p_norm2)
    /\ call.p_levene = NaN
    /\ result.test_type = "T-test de Welch (varianzas diferentes)"

\* C4, as claimed: the sign of cohens_d is the sign of mean(group1) -
\* mean(group2) in every result, also when both groups have zero variance.
C4_SignOfCohensD ==
    result.kind = "t_test" =>
        LET diff == FSub(result.mean_group1, result.mean_group2)
        IN  /\ FGt(diff, QZero) => FGt(result.cohens_d, QZero)
            /\ FLt(diff, QZero) => FLt(result.cohens_d, QZero)
            /\ FEq(diff, QZero) => FEq(result.cohens_d, QZero)

\* The pooled standard deviation of a result is a number above 0.
PooledStdPositive ==
    /\ ~result.std_group1.nan
    /\ ~result.std_group2.nan
    /\ (FGt(result.std_group1, QZero) \/ FGt(result.std_group2, QZero))

\* C4, amended: the sign of cohens_d is the sign of mean(group1) -
\* mean(group2) when the pooled standard deviation is above 0; when it is 0
\* (both groups of zero variance) or undefined (a group of fewer than two
\* numbers), cohens_d is 0 whatever the means are.
C4_SignOfCohensDWhenPooled ==
    result.kind = "t_test" =>
        IF PooledStdPositive
        THEN FSign(result.cohens_d)
                 = FSign(FSub(result.mean_group1, result.mean_group2))
        ELSE result.cohens_d = Num(QZero)

\* Two groups of zero variance whose means differ: cohens_d is 0.
C4_Witness ==
    /\ result.kind = "t_test"
    /\ FEq(result.std_group1, QZero)
    /\ FEq(result.std_group2, QZero)
    /\ FGt(FSub(result.mean_group1, result.mean_group2), QZero)
    /\ result.cohens_d = Num(QZero)

\* The pooled standard deviation of the two samples of a result:
\* sqrt((std1^2 + std2^2) / 2), NaN when a deviation is.
PooledStdOfResult ==
    FSqrt(FDiv(FAdd(FSq(result.std_group1), FSq(result.std_group2)),
               Num(QInt(2))))

\* C5, as claimed: whichever test was taken, cohens_d is
\* (mean1 - mean2) / pooled_std with pooled_std = sqrt((std1^2 + std2^2) / 2)
\* over the null-dropped samples, and is exactly 0 when pooled_std is 0.
C5_CohensDQuotient ==
    result.kind = "t_test" =>
        IF FEq(PooledStdOfResult, QZero)
        THEN result.cohens_d = Num(QZero)
        ELSE result.cohens_d =
                 FDiv(FSub(result.mean_group1, result.mean_group2),
                      PooledStdOfResult)

\* C5, amended: whichever test was taken, cohens_d is
\* (mean1 - mean2) / pooled_std when pooled_std is above 0, and is exactly 0
\* when pooled_std is 0 or undefined (a group of fewer than two numbers):
\* above 0, d has the sign of mean1 - mean2 and
\* d^2 * (std1^2 + std2^2) / 2 = (mean1 - mean2)^2.
C5_CohensDFormula ==
    result.kind = "t_test" =>
        IF PooledStdPositive
        THEN LET diff   == FSub(result.mean_group1, result.mean_group2)
                 pooled == QDiv(QAdd(FSq(result.std_group1).a,
                                     FSq(result.std_group2).a), QInt(2))
             IN  /\ FSign(result.cohens_d) = FSign(diff)
                 /\ QMul(FSq(result.cohens_d).a, pooled) = FSq(diff).a
        ELSE result.cohens_d = Num(QZero)

\* A result of the Mann-Whitney branch with a Cohen's d that is not 0.
C5_Witness ==
    /\ result.kind = "t_test"
    /\ result.test_type = "Mann-Whitney U"
    /\ PooledStdPositive
    /\ FLt(result.cohens_d, QZero)

\* C6: the effect_size of a t-test result is the label of |cohens_d|:
\* below 0.2 negligible, below 0.5 small, below 0.8 medium, else large.
C6_CohensDLabel ==
    result.kind = "t_test" =>
        LET d2 == FSq(result.cohens_d).a
        IN  result.effect_size =
                IF QLt(d2, Q(1, 25)) THEN "Efecto despreciable"
                ELSE IF QLt(d2, Q(1, 4)) THEN "Efecto pequeno"
                ELSE IF QLt(d2, Q(16, 25)) THEN "Efecto mediano"
                ELSE "Efecto grande"

\* A Cohen's d of -0.8 itself: large.
C6_Witness ==
    /\ result.kind = "t_test"
    /\ FEq(result.cohens_d, Q(-4, 5))
    /\ result.effect_size = "Efecto grande"

\* C7: the effect_size of a chi-square result is the bucket of its
\* cramers_v (0.1, 0.3, 0.5) and that of an ANOVA result the bucket of its
\* eta_squared (0.01, 0.06, 0.14), a threshold itself in the higher bucket.
C7_EffectSizeBuckets ==
    /\ result.kind = "chi_square" =>
           result.effect_size = Bucket(result.cramers_v, Q(1, 10), Q(3, 10), Q(1, 2))
    /\ result.kind = "anova" =>
           result.effect_size = Bucket(result.eta_squared, Q(1, 100), Q(3, 50), Q(7, 50))

\* An eta-squared of 0.06 itself: medium.
C7_Witness ==
    /\ result.kind = "anova"
    /\ result.eta_squared = Num(Q(3, 50))
    /\ result.effect_size = "Efecto mediano"

\* C8: in every result of perform_anova 0 <= eta_squared <= 1, that is
\* SS_between <= SS_total, and eta_squared is 0 when SS_total is 0.
C8_EtaSquaredRange ==
    result.kind = "anova" =>
        /\ FGe(result.eta_squared, QZero)
        /\ FLe(result.eta_squared, QOne)
        /\ FEq(call.ss_total, QZero) => FEq(result.eta_squared, QZero)

C10_ProportionCIEdges ==
    call.op = "calculate_proportion_ci" =>
        LET lower == result.ci[1]
            upper == result.ci[2]
        IN  /\ call.total = 0 => lower = Num(QZero) /\ upper = Num(QZero)
            /\ (call.successes = 0 /\ call.total > 0) =>
                   FEq(lower, QZero) /\ FGe(upper, QZero)
            /\ (call.successes = call.total /\ call.total > 0) =>
                   FEq(upper, QOne) /\ FGe(lower, QZero) /\ FLe(lower, QOne)

\* No observations and successes all the same: (0, 0).
C10_Witness ==
    /\ call.op = "calculate_proportion_ci"
    /\ call.total = 0
    /\ call.successes > 0
    /\ result.ci = <<Num(QZero), Num(QZero)>>

\* C11: for total > 0 and 0 <= successes <= total, at every confidence
\* level, calculate_proportion_ci returns (lower, upper) with
\* 0 <= lower <= successes / total <= upper <= 1.
C11_CIContainsEstimate ==
    (/\ call.op = "calculate_proportion_ci"
     /\ call.total > 0
     /\ call.successes <= call.total) =>
        LET lower == result.ci[1]
            upper == result.ci[2]
            p     == Q(call.successes, call.total)
        IN  /\ FGe(lower, QZero)
            /\ FLe(lower, p)
            /\ FGe(upper, p)
            /\ FLe(upper, QOne)

\* An interval clipped at 0 and not at 1, the estimate strictly inside it.
C11_Witness ==
    /\ call.op = "calculate_proportion_ci"
    /\ call.total > 0
    /\ call.successes > 0
    /\ call.successes < call.total
    /\ result.ci[1] = Num(QZero)
    /\ FGt(result.ci[2], Q(call.successes, call.total))
    /\ FLt(result.ci[2], QOne)

\* The rows of the caller's dataset whose grouping cells are those of a key.
RowsOfKey(key) ==
    {r \in DOMAIN df.rows :
        \A i \in DOMAIN key : r[call.group_vars[i]] = key[i]}

\* C12: calculate_cancellation_metrics returns one row per group, with
\* cancelaciones the sum, tasa_cancelacion the mean and total_reservas the
\* count of is_canceled in the group, tasa_confirmacion = 1 -
\* tasa_cancelacion and (ci_lower, ci_upper) the proportion interval of
\* (cancelaciones, total_reservas); tasa_cancelacion never increases from
\* one row to the next (a row of no bookings has no rate and comes last).
C12_CancellationMetrics ==
    result.kind = "cancellation_metrics" =>
        LET table == result.rows
        IN  /\ \A i, j \in DOMAIN table : table[i].key = table[j].key => i = j
            /\ \A r \in DOMAIN df.rows :
                   (\A c \in Range(call.group_vars) : r[c] # NA) =>
                       \E i \in DOMAIN table : r \in RowsOfKey(table[i].key)
            /\ \A i \in DOMAIN table :
                   LET rs    == RowsOfKey(table[i].key)
                       total == SumOver(df.rows, rs)
                       canc  == SumOver(df.rows, {r \in rs : r.is_canceled = 1})
                   IN  /\ table[i].cancelaciones = canc
                       /\ table[i].total_reservas = total
                       /\ table[i].tasa_cancelacion =
                              IF total = 0 THEN NaN ELSE Num(Q(canc, total))
                       /\ table[i].tasa_confirmacion =
                              IF total = 0 THEN NaN ELSE Num(Q(total - canc, total))
                       /\ <<table[i].ci_lower, table[i].ci_upper>> =
                              ProportionCI(canc, total, Q(19, 20))
            /\ \A i \in DOMAIN table :
                   (i > 1 /\ ~IsNaN(table[i].tasa_cancelacion)) =>
                       /\ ~IsNaN(table[i - 1].tasa_cancelacion)
                       /\ QLe(table[i].tasa_cancelacion.a,
                              table[i - 1].tasa_cancelacion.a)

\* A table of two hotels: all of the first's bookings canceled, half of
\* the second's.
C12_Witness ==
    /\ result.kind = "cancellation_metrics"
    /\ call.group_vars = <<"hotel">>
    /\ Len(result.rows) = 2
    /\ result.rows[1].tasa_cancelacion = Num(QOne)
    /\ result.rows[2].tasa_cancelacion = Num(Q(1, 2))
    /\ result.rows[2].total_reservas = 2

\* C13: analyze_feature_importance returns one row per requested feature;
\* a categorical feature has the Cramer's V of its chi-square test with the
\* target, any other the absolute point-biserial correlation after median
\* imputation; every score is >= 0, the scores never increase from one row
\* to the next, and each label is the five-level bucket of its score.
C13_FeatureImportance ==
    result.kind = "feature_importance" =>
        LET table == result.rows
        IN  /\ Len(table) = Len(call.features)
            /\ \A f \in Range(call.features) :
                   Cardinality({i \in DOMAIN table : table[i].feature = f})
                       = Cardinality({i \in DOMAIN call.features : call.features[i] = f})
            /\ \A i \in DOMAIN table :
                   LET f == table[i].feature
                       score == table[i].importance_score
                   IN  /\ score =
                              IF df.dtypes[f] = "category"
                              THEN ChiSquareResult(
                                       Crosstab(AsLabels(df, call.target), f, call.target),
                                       f, call.target, NaN).cramers_v
                              ELSE AbsPointBiserial(df, call.target, FilledColumn(df, f))
                       /\ FGe(score, QZero)
                       /\ table[i].interpretation =
                              IF FLt(score, Q(1, 10)) THEN "Muy baja"
                              ELSE IF FLt(score, Q(3, 10)) THEN "Baja"
                              ELSE IF FLt(score, Q(1, 2)) THEN "Moderada"
                              ELSE IF FLt(score, Q(7, 10)) THEN "Alta"
                              ELSE "Muy alta"
            /\ \A i \in DOMAIN table :
                   i > 1 => QLe(FSq(table[i].importance_score).a,
                                FSq(table[i - 1].importance_score).a)

\* The room nights of the caller's dataset over the bookings that satisfy
\* a condition on is_canceled: 0 when it has no total_stay_nights column.
RoomNights(canceled_values) ==
    IF "total_stay_nights" \in DOMAIN df.dtypes
    THEN LET rs == {r \in DOMAIN df.rows : r.is_canceled \in canceled_values}
         IN  SumOver([r \in rs |-> df.rows[r] * r.total_stay_nights], rs)
    ELSE 0

\* C14: estimated_occupancy_rate is (total_room_nights -
\* canceled_room_nights) / total_room_nights, in [0, 1], when
\* total_room_nights > 0, and exactly 0 when total_room_nights = 0 or the
\* dataset has no total_stay_nights column.
C14_OccupancyRate ==
    result.kind = "business_metrics" =>
        LET rate  == result.scalars.estimated_occupancy_rate
            total == RoomNights({0, 1})
        IN  IF total > 0
            THEN /\ rate = Num(Q(RoomNights({0}), total))
                 /\ FGe(rate, QZero)
                 /\ FLe(rate, QOne)
            ELSE rate = Num(QZero)

\* A third of the room nights are of bookings that were not canceled.
C14_Witness ==
    /\ result.kind = "business_metrics"
    /\ RoomNights({1}) = 2
    /\ RoomNights({0}) = 1
    /\ result.scalars.estimated_occupancy_rate = Num(Q(1, 3))

\* The bag of rows with one more, or one fewer, of a row.
WithRow(rows, r) ==
    IF r \in DOMAIN rows THEN [rows EXCEPT ![r] = @ + 1] ELSE rows @@ (r :> 1)

WithoutRow(rows, r) ==
    IF rows[r] > 1 THEN [rows EXCEPT ![r] = @ - 1]
    ELSE [q \in DOMAIN rows \ {r} |-> rows[q]]

\* C15: potential_revenue_loss is the sum of adr * total_stay_nights over
\* the canceled bookings: it is the same for the dataset with a booking
\* that is not canceled added, removed or changed, and 0 with no canceled
\* booking.
C15_RevenueLossOfCanceled ==
    (/\ result.kind = "business_metrics"
     /\ {"adr", "total_stay_nights"} \subseteq DOMAIN df.dtypes) =>
        LET loss     == result.scalars.potential_revenue_loss
            canceled == {r \in DOMAIN df.rows : r.is_canceled = 1}
            kept     == {r \in BookingRows(DOMAIN df.dtypes) : r.is_canceled = 0}
            lossOf(rows) == BusinessMetrics([df EXCEPT !.rows = rows])
                                .scalars.potential_revenue_loss
        IN  /\ loss = Num(QInt(SumOver(
                        [r \in canceled |->
                            IF r.adr = NullNum THEN 0
                            ELSE df.rows[r] * r.adr[1] * r.total_stay_nights],
                        canceled)))
            /\ canceled = {} => loss = Num(QZero)
            /\ \A r \in kept : lossOf(WithRow(df.rows, r)) = loss
            /\ \A r \in kept \cap DOMAIN df.rows :
                   /\ lossOf(WithoutRow(df.rows, r)) = loss
                   /\ \A q \in kept :
                          lossOf(WithRow(WithoutRow(df.rows, r), q)) = loss

\* A canceled booking of 2 nights at 3 a night beside a booking that is
\* not canceled: the loss is 6.
C15_Witness ==
    /\ result.kind = "business_metrics"
    /\ "potential_revenue_loss" \in DOMAIN result.scalars
    /\ result.scalars.potential_revenue_loss = Num(QInt(6))
    /\ \E r \in DOMAIN df.rows :
           r.is_canceled = 0 /\ r.adr = <<3>> /\ r.total_stay_nights = 2

ObservedNumbers(column) ==
    {r[column][1] : r \in {q \in DOMAIN df.rows : q[column] # NullNum}}

\* C17: on a degenerate input (no observation at all, an empty group, a
\* numeric column of zero variance, a column of a single category) none of
\* perform_chi_square_test, perform_t_test, perform_anova,
\* calculate_proportion_ci and calculate_business_metrics raises: each
\* returns a result whose affected value is 0.
C17_DegenerateNeverRaises ==
    /\ (/\ call.op = "perform_chi_square_test"
        /\ \/ NRows(df.rows) = 0
           \/ Cardinality(ObservedValues(call.var1)) = 1
           \/ Cardinality(ObservedValues(call.var2)) = 1) =>
           /\ result.kind = "chi_square"
           /\ FEq(result.cramers_v, QZero)
    /\ (/\ call.op = "perform_t_test"
        /\ \/ NRows(df.rows) = 0
           \/ \E g \in {call.group1, call.group2} :
                  SampleLen(GroupSample(df, call.numeric_var, call.group_var, g)) = 0
           \/ Cardinality(ObservedNumbers(call.numeric_var)) = 1) =>
           /\ result.kind = "t_test"
           /\ FEq(result.cohens_d, QZero)
    /\ (/\ call.op = "perform_anova"
        /\ \/ NRows(df.rows) = 0
           \/ Cardinality(ObservedValues(call.group_var)) = 1
           \/ Cardinality(ObservedNumbers(call.numeric_var)) = 1) =>
           /\ result.kind = "anova"
           /\ FEq(result.eta_squared, QZero)
    /\ (call.op = "calculate_proportion_ci" /\ call.total = 0) =>
           /\ result.kind = "proportion_ci"
           /\ result.ci = <<Num(QZero), Num(QZero)>>
    /\ (call.op = "calculate_business_metrics" /\ NRows(df.rows) = 0) =>
           /\ result.kind = "business_metrics"
           /\ result.scalars.estimated_occupancy_rate = Num(QZero)

\* C18: for the dataset of 100 rows whose table of var1 by var2 is
\* [[40, 10], [10, 40]], perform_chi_square_test returns a statistic > 0,
\* a p-value < 0.05 with is_significant true, a Cramer's V of about 0.6
\* (within 0.05 of it) and the label of a large effect.
C18_ChiSquareScenario ==
    (/\ df.rows = ScenarioBag
     /\ call.op = "perform_chi_square_test"
     /\ call.var1 = "var1"
     /\ call.var2 = "var2") =>
        /\ result.kind = "chi_square"
        /\ result.contingency_table.count =
               (<<"A", "X">> :> 40) @@ (<<"A", "Y">> :> 10)
               @@ (<<"B", "X">> :> 10) @@ (<<"B", "Y">> :> 40)
        /\ FGt(result.chi2_statistic, QZero)
        /\ BelowAlpha(result.p_value)
        /\ result.is_significant
        /\ FGe(result.cramers_v, Q(11, 20))
        /\ FLe(result.cramers_v, Q(13, 20))
        /\ result.effect_size = "Efecto grande"

\* The result for that dataset: with the continuity correction the
\* statistic is 33.64 and Cramer's V 0.58.
C18_Witness ==
    /\ df.rows = ScenarioBag
    /\ call.op = "perform_chi_square_test"
    /\ call.var1 = "var1"
    /\ call.var2 = "var2"
    /\ result.kind = "chi_square"
    /\ result.chi2_statistic = Num(Q(841, 25))
    /\ FEq(result.cramers_v, Q(29, 50))
    /\ result.degrees_of_freedom = 1

\* The call perform_t_test(df, numeric_var, group_var, "a", "b") on the
\* dataset of the two groups of the scenario.
ScenarioTTest ==
    /\ df.rows = ScenarioGroups
    /\ call.op = "perform_t_test"
    /\ call.group1 = "a"
    /\ call.group2 = "b"

\* The test the documented procedure selects for the outcomes of the
\* normality and variance checks of a call.
SelectedTest ==
    IF AboveAlpha(call.p_norm1) /\ AboveAlpha(call.p_norm2)
    THEN (IF AboveAlpha(call.p_levene)
          THEN "T-test (varianzas iguales)"
          ELSE "T-test de Welch (varianzas diferentes)")
    ELSE "Mann-Whitney U"

\* C19, as claimed: for group1 = [10, 12, 11, 13, 12] and group2 =
\* [20, 22, 21, 23, 22], perform_t_test returns a Cohen's d > 0.8 with the
\* label of a large effect, and the test_type that the decision procedure
\* selects for the outcomes of the checks of the two samples.
C19_TTestScenario ==
    ScenarioTTest =>
        /\ result.kind = "t_test"
        /\ FGt(result.cohens_d, Q(4, 5))
        /\ result.effect_size = "Efecto grande"
        /\ result.test_type = SelectedTest

\* C19, amended: the Cohen's d returned is negative (group1 has the lower
\* mean) and large in absolute value, |d| > 0.8, with the label of a large
\* effect, and test_type is the test the decision procedure selects.
C19_TTestScenarioMagnitude ==
    ScenarioTTest =>
        /\ result.kind = "t_test"
        /\ FLt(result.cohens_d, Q(-4, 5))
        /\ FGt(FAbs(result.cohens_d), Q(4, 5))
        /\ result.effect_size = "Efecto grande"
        /\ result.test_type = SelectedTest

\* The scenario with both samples passing normality and a Levene p-value
\* that does not: Welch's t-test, and d = -sqrt(1000/13), about -8.77.
C19_Witness ==
    /\ ScenarioTTest
    /\ result.kind = "t_test"
    /\ AboveAlpha(call.p_norm1)
    /\ AboveAlpha(call.p_norm2)
    /\ ~AboveAlpha(call.p_levene)
    /\ result.test_type = "T-test de Welch (varianzas diferentes)"
    /\ FSq(result.cohens_d) = Num(Q(1000, 13))
    /\ result.mean_group1 = Num(Q(58, 5))

\* C20, as claimed: the table clean_data returns has no two identical
\* rows, and cleaning it again returns the same rows.
C20_CleanDataIdempotent ==
    result.kind = "clean_data" =>
        /\ \A r \in DOMAIN result.data.rows : result.data.rows[r] = 1
        /\ CleanedData(result.data).rows = result.data.rows

\* C21, as claimed: create_derived_features gives every booking with
\* lead_time >= 0 one of the eight lead_time_bucket labels, '0-7' for every
\* lead time from 0 to 7, and each edge 7, 14, 30, 60, 90, 180, 365 the label
\* that ends with it.
C21_LeadTimeBucket ==
    result.kind = "derived_features" =>
        \A r \in DOMAIN result.data.rows :
            (r.lead_time # NullNum /\ r.lead_time[1] >= 0) =>
                /\ r.lead_time_bucket \in Range(LeadTimeLabels)
                /\ r.lead_time[1] <= 7 => r.lead_time_bucket = "0-7"
                /\ \A i \in 2..Len(LeadTimeEdges) :
                       r.lead_time[1] = LeadTimeEdges[i] =>
                           r.lead_time_bucket = LeadTimeLabels[i - 1]

====
